---- MODULE Spec2Model ----
(***************************************************************************)
(* Model of aquifer.py: one relational adapter instance (MySQLSync and its  *)
(* line-for-line siblings) driving one target database.                     *)
(*                                                                          *)
(* The database is the environment.  Its answers are inputs of each call:   *)
(*   validOK  the vendor accepts the statement inside test_sql_statement    *)
(*   execOK   the real execute of a creating statement succeeds             *)
(*   dropOK   the real execute of a DROP statement succeeds                 *)
(*   logOK    the INSERT into sync_log succeeds                             *)
(* Two traits of the vendor and its driver are fixed per adapter:           *)
(*   mysql      the definition query of an absent object raises a vendor    *)
(*              error; cursor.execute(None) returns without doing anything  *)
(*   sqlserver  OBJECT_DEFINITION of an absent object is NULL;              *)
(*              cursor.execute(None) raises TypeError, which no handler of  *)
(*              the adapter catches                                         *)
(* A definition text is the CREATE statement of its object, as returned by  *)
(* SHOW CREATE ...; executing it for real sets the object's definition.     *)
(* A dry run (test_sql_statement) is rolled back and changes nothing.       *)
(* Catalog queries and the SELECT on sync_log are taken to succeed.         *)
(***************************************************************************)
EXTENDS Naturals, Sequences, FiniteSets, TLC

\* ---------------------------------------------------------------- bounds
MaxLog == 2

\* ---------------------------------------------------------------- universe
NULL == "NULL"
Types == {"table", "view", "procedure"}
\* The catalog universe: the names an object type can have, in catalog order.
NameOrder == <<"a", "b">>
NamesOf(t) == IF t = "view" THEN {"a", "b"} ELSE {"a"}
Defs == {"d1", "d2"}
OptDef == Defs \cup {NULL}
Objects == {o \in Types \X {"a", "b"} : o[2] \in NamesOf(o[1])}
\* The objects a caller addresses one at a time.
ApiObjects == {o \in Objects : o[2] = "a"}
\* A call ends at its first failing statement, so one fault per call covers every case.
Faults == {"none", "validate", "execute", "drop", "log"}
EnvOf(f, v) == [validOK |-> f # "validate", execOK |-> f # "execute",
                dropOK |-> f # "drop", logOK |-> f # "log", vendor |-> v]
Env(v) == {EnvOf(f, v) : f \in Faults}
RollbackEnv(v) == {e \in Env(v) : e.logOK}
Vendors == {"mysql", "sqlserver"}
Idle == [type |-> "none", create_on_target |-> FALSE, alter_sync |-> FALSE]
\* No process is running main: an adapter is driven by its caller.
NoRun == [pc |-> "none"]

VARIABLES
    target,       \* target[<<type, name>>]: definition text on the target, NULL when absent
    source,       \* source[<<type, name>>]: definition text on the source, NULL when unavailable
    vendor,       \* "mysql" or "sqlserver": the adapter class in use
    sync_log,     \* the sync_log table, in insertion order
    bulk,         \* the running synchronize_all_* call, or Idle
    queue,        \* names of the running bulk call's snapshot still to process
    last,         \* report of the most recent call
    run           \* the process running main: its arguments and position, or NoRun

vars == <<target, source, vendor, sync_log, bulk, queue, last, run>>

\* ---------------------------------------------------------------- helpers
Ev(kind, stmt, ok) == [ev |-> kind, stmt |-> stmt, ok |-> ok]

Res(def, recs, trace, outcome) ==
    [def |-> def, recs |-> recs, trace |-> trace, outcome |-> outcome]

\* Python truthiness of a definition text: None is falsy.
Truthy(s) == s # NULL

\* The argument tuple with a replacement recorded as action alter.
Rec_alter(t, n, action, original_state, new_state, rollback_action) ==
    [object_type |-> t, object_name |-> n,
     action |-> IF action = "sync" THEN "alter" ELSE action,
     sync_direction |-> "source_to_target",
     original_state |-> original_state, new_state |-> new_state,
     rollback_action |-> rollback_action]

\* log_sync_action's argument tuple (source_code_hash is a constant of the run).
Rec(t, n, action, original_state, new_state, rollback_action) ==
    [object_type |-> t, object_name |-> n, action |-> action,
     sync_direction |-> "source_to_target",
     original_state |-> original_state, new_state |-> new_state,
     rollback_action |-> rollback_action]

\* The real execute of a creating statement: the object then has that text.
\* Executing None changes nothing.
Executed(cur, stmt) == IF stmt = NULL THEN cur ELSE stmt

\* test_sql_statement: START TRANSACTION; execute; ROLLBACK. The result is the vendor's verdict.
test_sql_statement(statement, e) == e.validOK

\* ValidateExecuteLog with the verdict of the dry run ignored.
ValidateExecuteLog_ungated(cur, tr, stmt, rec, e) ==
    Res(Executed(cur, stmt), <<rec>>,
        tr \o <<Ev("validate", stmt, test_sql_statement(stmt, e)),
                Ev("execute", stmt, TRUE), Ev("log", stmt, TRUE)>>,
        "Applied")

\* ValidateExecuteLog writing the record before the real execute.
ValidateExecuteLog_logfirst(cur, tr, stmt, rec, e) ==
    IF ~test_sql_statement(stmt, e)
    THEN Res(cur, <<>>, tr \o <<Ev("validate", stmt, FALSE)>>, "ValidationFailed")
    ELSE Res(Executed(cur, stmt), <<rec>>,
             tr \o <<Ev("validate", stmt, TRUE), Ev("log", stmt, TRUE),
                     Ev("execute", stmt, e.execOK)>>,
             "Applied")

\* if self.test_sql_statement(x): self.cursor.execute(x); self.log_sync_action(...)
\* cur: the object's definition when the block is entered; tr: statements sent so far.
ValidateExecuteLog(cur, tr, stmt, rec, e) ==
    IF stmt = NULL /\ e.vendor = "sqlserver"
    THEN Res(cur, <<>>, tr, "Crashed")
    ELSE IF ~test_sql_statement(stmt, e)
    THEN Res(cur, <<>>, tr \o <<Ev("validate", stmt, FALSE)>>, "ValidationFailed")
    ELSE IF ~e.execOK
    THEN Res(cur, <<>>,
             tr \o <<Ev("validate", stmt, TRUE), Ev("execute", stmt, FALSE)>>,
             "ExecutionError")
    ELSE IF ~e.logOK
    THEN Res(Executed(cur, stmt), <<>>,
             tr \o <<Ev("validate", stmt, TRUE), Ev("execute", stmt, TRUE),
                     Ev("log", stmt, FALSE)>>,
             "AppliedUnlogged")
    ELSE Res(Executed(cur, stmt), <<rec>>,
             tr \o <<Ev("validate", stmt, TRUE), Ev("execute", stmt, TRUE),
                     Ev("log", stmt, TRUE)>>,
             "Applied")

\* DROP ... IF EXISTS name, then the validate/execute/log block.
DropThenApply(cur, stmt, rec, e) ==
    IF ~e.dropOK
    THEN Res(cur, <<>>, <<Ev("drop", "DROP", FALSE)>>, "ExecutionError")
    ELSE ValidateExecuteLog(NULL, <<Ev("drop", "DROP", TRUE)>>, stmt, rec, e)

\* get_view_definition / get_procedure_definition of the adapter.
get_definition(src, t, n) == src[<<t, n>>]

\* SHOW CREATE TABLE / SHOW CREATE VIEW on the adapter's own cursor (the target
\* connection): the text, NULL, or a vendor error for an absent object.
show_create(tg, v, t, n) ==
    IF tg[<<t, n>>] # NULL THEN tg[<<t, n>>]
    ELSE IF v = "mysql" THEN "ERROR" ELSE NULL

\* synchronize_table with original_state read from the source database.
synchronize_table_from_source(tg, src, table, alter_sync, create_on_target, e) ==
    LET cur == tg[<<"table", table>>]
        original_state == get_definition(src, "table", table)
        target_exists == cur # NULL
        target_state == show_create(tg, e.vendor, "table", table)
    IN  IF original_state = "ERROR" THEN Res(cur, <<>>, <<>>, "Error")
        ELSE IF ~target_exists
        THEN IF create_on_target
             THEN ValidateExecuteLog(cur, <<>>, original_state,
                      Rec("table", table, "create", NULL, original_state, "drop"), e)
             ELSE Res(cur, <<>>, <<>>, "Skipped")
        ELSE IF original_state # target_state
        THEN IF alter_sync
             THEN Res(cur, <<>>, <<>>, "AlterNoop")
             ELSE DropThenApply(cur, original_state,
                      Rec("table", table, "sync", target_state, original_state, "drop"), e)
        ELSE Res(cur, <<>>, <<>>, "Identical")

synchronize_table(tg, src, table, alter_sync, create_on_target, e) ==
    LET cur == tg[<<"table", table>>]
        original_state == show_create(tg, e.vendor, "table", table)
        target_exists == cur # NULL
        target_state == show_create(tg, e.vendor, "table", table)
    IN  IF original_state = "ERROR" THEN Res(cur, <<>>, <<>>, "Error")
        ELSE IF ~target_exists
        THEN IF create_on_target
             THEN ValidateExecuteLog(cur, <<>>, original_state,
                      Rec("table", table, "create", NULL, original_state, "drop"), e)
             ELSE Res(cur, <<>>, <<>>, "Skipped")
        ELSE IF original_state # target_state
        THEN IF alter_sync
             THEN Res(cur, <<>>, <<>>, "AlterNoop")
             ELSE DropThenApply(cur, original_state,
                      Rec("table", table, "sync", target_state, original_state, "drop"), e)
        ELSE Res(cur, <<>>, <<>>, "Identical")

synchronize_view(tg, src, view_name, alter_sync, create_on_target, e) ==
    LET cur == tg[<<"view", view_name>>]
        source_definition == get_definition(src, "view", view_name)
        original_state == show_create(tg, e.vendor, "view", view_name)
        target_exists == cur # NULL
    IN  IF original_state = "ERROR" THEN Res(cur, <<>>, <<>>, "Error")
        ELSE IF ~target_exists /\ create_on_target
        THEN ValidateExecuteLog(cur, <<>>, source_definition,
                 Rec("view", view_name, "create", original_state, source_definition, "drop"), e)
        ELSE IF source_definition # original_state
        THEN DropThenApply(cur, source_definition,
                 Rec("view", view_name, "sync", original_state, source_definition, "drop"), e)
        ELSE Res(cur, <<>>, <<>>, "Identical")

\* synchronize_procedure creating only a procedure the target does not have.
synchronize_procedure_absent_only(tg, src, procedure_name, alter_sync, create_on_target, e) ==
    LET cur == tg[<<"procedure", procedure_name>>]
        source_definition == get_definition(src, "procedure", procedure_name)
        target_exists == cur # NULL
        target_definition == get_definition(src, "procedure", procedure_name)
        original_state == target_definition
    IN  IF ~target_exists
        THEN ValidateExecuteLog(cur, <<>>, source_definition,
                 Rec("procedure", procedure_name, "create", NULL, source_definition, "drop"), e)
        ELSE IF source_definition # target_definition
        THEN DropThenApply(cur, source_definition,
                 Rec("procedure", procedure_name, "sync", original_state, source_definition, "drop"), e)
        ELSE Res(cur, <<>>, <<>>, "Identical")

synchronize_procedure(tg, src, procedure_name, alter_sync, create_on_target, e) ==
    LET cur == tg[<<"procedure", procedure_name>>]
        source_definition == get_definition(src, "procedure", procedure_name)
        target_exists == cur # NULL
        target_definition == get_definition(src, "procedure", procedure_name)
        original_state == target_definition
    IN  IF ~target_exists \/ create_on_target
        THEN ValidateExecuteLog(cur, <<>>, source_definition,
                 Rec("procedure", procedure_name, "create", NULL, source_definition, "drop"), e)
        ELSE IF source_definition # target_definition
        THEN DropThenApply(cur, source_definition,
                 Rec("procedure", procedure_name, "sync", original_state, source_definition, "drop"), e)
        ELSE Res(cur, <<>>, <<>>, "Identical")

\* The per-object pipeline a bulk call or a caller invokes for an object type.
synchronize(tg, src, t, n, alter_sync, create_on_target, e) ==
    CASE t = "table" -> synchronize_table(tg, src, n, alter_sync, create_on_target, e)
      [] t = "view" -> synchronize_view(tg, src, n, alter_sync, create_on_target, e)
      [] t = "procedure" -> synchronize_procedure(tg, src, n, alter_sync, create_on_target, e)

\* latest_row with ORDER BY timestamp ASC: the oldest row of the pair.
latest_row_oldest(log, t, n) ==
    LET rows == {i \in DOMAIN log : log[i].object_type = t /\ log[i].object_name = n}
    IN  IF rows = {} THEN [original_state |-> NULL, action |-> NULL]
        ELSE LET i == CHOOSE k \in rows : \A j \in rows : log[j].timestamp >= log[k].timestamp
             IN  [original_state |-> log[i].original_state, action |-> log[i].action]

\* latest_row taking a pair without a row for one whose object was created.
latest_row_default_create(log, t, n) ==
    LET rows == {i \in DOMAIN log : log[i].object_type = t /\ log[i].object_name = n}
    IN  IF rows = {} THEN [original_state |-> NULL, action |-> "create"]
        ELSE LET i == CHOOSE k \in rows : \A j \in rows : log[j].timestamp <= log[k].timestamp
             IN  [original_state |-> log[i].original_state, action |-> log[i].action]

\* SELECT original_state, action FROM sync_log WHERE object_type=t AND object_name=n
\* ORDER BY timestamp DESC LIMIT 1; (None, None) when there is no row.
latest_row(log, t, n) ==
    LET rows == {i \in DOMAIN log : log[i].object_type = t /\ log[i].object_name = n}
    IN  IF rows = {} THEN [original_state |-> NULL, action |-> NULL]
        ELSE LET i == CHOOSE k \in rows : \A j \in rows : log[j].timestamp <= log[k].timestamp
             IN  [original_state |-> log[i].original_state, action |-> log[i].action]

\* rollback_dispatch executing original_state without the dry run.
rollback_dispatch_unvalidated(cur, row, keyword, e) ==
    IF row.action = "create"
    THEN Res(NULL, <<>>, <<Ev("drop", "DROP", TRUE)>>, "Dropped")
    ELSE IF row.action = keyword /\ Truthy(row.original_state)
    THEN Res(Executed(cur, row.original_state), <<>>,
             <<Ev("execute", row.original_state, TRUE)>>, "Recreated")
    ELSE Res(cur, <<>>, <<>>, "NoAction")

\* rollback_dispatch testing the stored rollback_action instead of action:
\* a record with action create is not recognised.
rollback_dispatch_nodrop(cur, row, keyword, e) ==
    IF row.action = "drop"
    THEN Res(NULL, <<>>, <<Ev("drop", "DROP", TRUE)>>, "Dropped")
    ELSE IF row.action = keyword /\ Truthy(row.original_state)
    THEN IF ~test_sql_statement(row.original_state, e)
         THEN Res(cur, <<>>, <<Ev("validate", row.original_state, FALSE)>>, "ValidationFailed")
         ELSE Res(Executed(cur, row.original_state), <<>>,
                  <<Ev("validate", row.original_state, TRUE),
                    Ev("execute", row.original_state, TRUE)>>, "Recreated")
    ELSE Res(cur, <<>>, <<>>, "NoAction")

\* rollback_dispatch with a plain DROP whose vendor error for an absent object
\* is not caught.
rollback_dispatch_strictdrop(cur, row, keyword, e) ==
    IF row.action = "create"
    THEN IF cur = NULL
         THEN Res(cur, <<>>, <<Ev("drop", "DROP", FALSE)>>, "Crashed")
         ELSE IF e.dropOK
         THEN Res(NULL, <<>>, <<Ev("drop", "DROP", TRUE)>>, "Dropped")
         ELSE Res(cur, <<>>, <<Ev("drop", "DROP", FALSE)>>, "ExecutionError")
    ELSE IF row.action = keyword /\ Truthy(row.original_state)
    THEN IF ~test_sql_statement(row.original_state, e)
         THEN Res(cur, <<>>, <<Ev("validate", row.original_state, FALSE)>>, "ValidationFailed")
         ELSE IF ~e.execOK
         THEN Res(cur, <<>>, <<Ev("validate", row.original_state, TRUE),
                                Ev("execute", row.original_state, FALSE)>>, "ExecutionError")
         ELSE Res(Executed(cur, row.original_state), <<>>,
                  <<Ev("validate", row.original_state, TRUE),
                    Ev("execute", row.original_state, TRUE)>>, "Recreated")
    ELSE Res(cur, <<>>, <<>>, "NoAction")

\* The body shared by rollback_table / rollback_view / rollback_procedure; they
\* differ in the action keyword of the recreate branch.
rollback_dispatch(cur, row, keyword, e) ==
    IF row.action = "create"
    THEN IF e.dropOK
         THEN Res(NULL, <<>>, <<Ev("drop", "DROP", TRUE)>>, "Dropped")
         ELSE Res(cur, <<>>, <<Ev("drop", "DROP", FALSE)>>, "ExecutionError")
    ELSE IF row.action = keyword /\ Truthy(row.original_state)
    THEN IF ~test_sql_statement(row.original_state, e)
         THEN Res(cur, <<>>, <<Ev("validate", row.original_state, FALSE)>>, "ValidationFailed")
         ELSE IF ~e.execOK
         THEN Res(cur, <<>>, <<Ev("validate", row.original_state, TRUE),
                                Ev("execute", row.original_state, FALSE)>>, "ExecutionError")
         ELSE Res(Executed(cur, row.original_state), <<>>,
                  <<Ev("validate", row.original_state, TRUE),
                    Ev("execute", row.original_state, TRUE)>>, "Recreated")
    ELSE Res(cur, <<>>, <<>>, "NoAction")

rollback_table(tg, log, table_name, e) ==
    rollback_dispatch(tg[<<"table", table_name>>], latest_row(log, "table", table_name), "alter", e)

rollback_view(tg, log, view_name, e) ==
    rollback_dispatch(tg[<<"view", view_name>>], latest_row(log, "view", view_name), "sync", e)

rollback_procedure(tg, log, procedure_name, e) ==
    rollback_dispatch(tg[<<"procedure", procedure_name>>],
                      latest_row(log, "procedure", procedure_name), "sync", e)

\* main's dispatch on the type of --rollback type:name.
rollback(tg, log, t, n, e) ==
    CASE t = "table" -> rollback_table(tg, log, n, e)
      [] t = "view" -> rollback_view(tg, log, n, e)
      [] t = "procedure" -> rollback_procedure(tg, log, n, e)

\* log_sync_action keeping one row per object: the row of a pair that has one
\* is overwritten.
log_sync_action_upsert(log, recs) ==
    IF recs = <<>> THEN log
    ELSE LET row(k) == [object_type |-> recs[1].object_type,
                        object_name |-> recs[1].object_name,
                        action |-> recs[1].action,
                        sync_direction |-> recs[1].sync_direction,
                        original_state |-> recs[1].original_state,
                        new_state |-> recs[1].new_state,
                        rollback_action |-> recs[1].rollback_action,
                        timestamp |-> k]
             old == {i \in DOMAIN log : log[i].object_type = recs[1].object_type
                                         /\ log[i].object_name = recs[1].object_name}
         IN  IF old = {} THEN Append(log, row(Len(log) + 1))
             ELSE [i \in DOMAIN log |-> IF i \in old THEN row(i) ELSE log[i]]

\* log_sync_action writing over the newest row instead of inserting after it.
log_sync_action_lastwins(log, recs) ==
    IF recs = <<>> THEN log
    ELSE LET k == IF log = <<>> THEN 1 ELSE Len(log)
         IN  [i \in 1..k |-> IF i < k THEN log[i]
                              ELSE [object_type |-> recs[1].object_type,
                                    object_name |-> recs[1].object_name,
                                    action |-> recs[1].action,
                                    sync_direction |-> recs[1].sync_direction,
                                    original_state |-> recs[1].original_state,
                                    new_state |-> recs[1].new_state,
                                    rollback_action |-> recs[1].rollback_action,
                                    timestamp |-> k]]

\* The INSERT of log_sync_action: the store stamps the row on insertion.
log_sync_action(log, recs) ==
    IF recs = <<>> THEN log
    ELSE Append(log, [object_type |-> recs[1].object_type,
                      object_name |-> recs[1].object_name,
                      action |-> recs[1].action,
                      sync_direction |-> recs[1].sync_direction,
                      original_state |-> recs[1].original_state,
                      new_state |-> recs[1].new_state,
                      rollback_action |-> recs[1].rollback_action,
                      timestamp |-> Len(log) + 1])

\* list_objects naming every object of the type the source could hold, on the
\* target or not.
list_objects_all_names(tg, t) ==
    SelectSeq(NameOrder, LAMBDA n : n \in NamesOf(t))

\* SHOW TABLES / SHOW FULL TABLES ... / SHOW PROCEDURE STATUS on the target.
list_objects(tg, t) ==
    SelectSeq(NameOrder, LAMBDA n : n \in NamesOf(t) /\ tg[<<t, n>>] # NULL)

\* What a per-object method hands to its caller: it has no return statement,
\* so None, unless an exception no handler catches leaves it.
Returned(outcome) == IF outcome = "Crashed" THEN "TypeError" ELSE "None"

\* The level of the logging record a per-object method emits for an event:
\* logging.error for a rejected dry run, a failed statement and a failed log
\* write, logging.info after a successful execute.
LevelOf(ev) ==
    IF ~ev.ok THEN "ERROR"
    ELSE IF ev.ev \in {"execute", "drop"} THEN "INFO" ELSE "NONE"

Report(op, t, n, alter_sync, create_on_target, r, pre, loglen) ==
    [op |-> op, type |-> t, name |-> n, alter_sync |-> alter_sync,
     create_on_target |-> create_on_target, outcome |-> r.outcome,
     trace |-> r.trace, pre |-> pre, loglen |-> loglen]

NoReport(op, t) ==
    [op |-> op, type |-> t, name |-> NULL, alter_sync |-> FALSE,
     create_on_target |-> FALSE, outcome |-> "none", trace |-> <<>>,
     pre |-> NULL, loglen |-> 0]

\* ---------------------------------------------------------------- behaviour
\* Every source definition available, or those of view a and procedure a unavailable.
SourceChoices ==
    { [o \in Objects |-> "d1"],
      [o \in Objects |-> IF o[2] = "a" /\ o[1] # "table" THEN NULL ELSE "d1"] }

Init ==
    /\ target \in [Objects -> OptDef]
    /\ source \in SourceChoices
    /\ vendor \in Vendors
    /\ sync_log = <<>>
    /\ bulk = Idle
    /\ queue = <<>>
    /\ last = NoReport("none", "none")
    /\ run = NoRun

\* The effect of one per-object call on the adapter's state.
Apply(op, t, n, alter_sync, create_on_target, r) ==
    /\ target' = [target EXCEPT ![<<t, n>>] = r.def]
    /\ sync_log' = log_sync_action(sync_log, r.recs)
    /\ last' = Report(op, t, n, alter_sync, create_on_target, r,
                      target[<<t, n>>], Len(sync_log))
    /\ UNCHANGED <<source, vendor>>

\* A caller invokes synchronize_table / _view / _procedure for one object.
Synchronize(t, n, alter_sync, create_on_target, e) ==
    /\ bulk = Idle
    /\ Len(sync_log) < MaxLog
    /\ Apply("sync", t, n, alter_sync, create_on_target,
             synchronize(target, source, t, n, alter_sync, create_on_target, e))
    /\ UNCHANGED <<bulk, queue>>

\* synchronize_all_tables / _views / _procedures: the snapshot of the names.
BulkStart(t, alter_sync, create_on_target) ==
    /\ bulk = Idle
    /\ bulk' = [type |-> t, create_on_target |-> create_on_target, alter_sync |-> alter_sync]
    /\ queue' = list_objects(target, t)
    /\ last' = NoReport("enumerate", t)
    /\ UNCHANGED <<target, source, vendor, sync_log>>

\* A bulk loop that a failed execute ends.
BulkStep_stop_on_error(e) ==
    /\ bulk # Idle
    /\ queue # <<>>
    /\ Len(sync_log) < MaxLog
    /\ Apply("sync", bulk.type, Head(queue), bulk.alter_sync, bulk.create_on_target,
             synchronize(target, source, bulk.type, Head(queue),
                         bulk.alter_sync, bulk.create_on_target, e))
    /\ LET stopped == last'.outcome \in {"Crashed", "ExecutionError"}
       IN  /\ queue' = IF stopped THEN <<>> ELSE Tail(queue)
           /\ bulk' = IF stopped THEN Idle ELSE bulk

\* One iteration of the bulk loop.
BulkStep(e) ==
    /\ bulk # Idle
    /\ queue # <<>>
    /\ Len(sync_log) < MaxLog
    /\ Apply("sync", bulk.type, Head(queue), bulk.alter_sync, bulk.create_on_target,
             synchronize(target, source, bulk.type, Head(queue),
                         bulk.alter_sync, bulk.create_on_target, e))
    /\ LET crashed == last'.outcome = "Crashed"
       IN  /\ queue' = IF crashed THEN <<>> ELSE Tail(queue)
           /\ bulk' = IF crashed THEN Idle ELSE bulk

\* The bulk loop is exhausted and the call returns.
BulkEnd ==
    /\ bulk # Idle
    /\ queue = <<>>
    /\ bulk' = Idle
    /\ last' = NoReport("done", bulk.type)
    /\ UNCHANGED <<target, source, vendor, sync_log, queue>>

\* main --rollback type:name on this target.
Rollback(t, n, e) ==
    /\ bulk = Idle
    /\ Apply("rollback", t, n, FALSE, FALSE, rollback(target, sync_log, t, n, e))
    /\ UNCHANGED <<bulk, queue>>

\* The adapter driven one object at a time: per-object syncs and rollbacks.
InitApi == Init /\ \A o \in Objects \ ApiObjects : target[o] = NULL

Next ==
    \/ \E o \in ApiObjects, a \in BOOLEAN, c \in BOOLEAN, e \in Env(vendor) :
           Synchronize(o[1], o[2], a, c, e) /\ UNCHANGED run
    \/ \E o \in ApiObjects, e \in RollbackEnv(vendor) :
           Rollback(o[1], o[2], e) /\ UNCHANGED run

Spec == InitApi /\ [][Next]_vars

\* The adapter driven as main drives it: bulk syncs and rollbacks.
NextMain ==
    \/ \E t \in Types, a \in BOOLEAN, c \in BOOLEAN : BulkStart(t, a, c) /\ UNCHANGED run
    \/ \E e \in Env(vendor) : BulkStep(e) /\ UNCHANGED run
    \/ BulkEnd /\ UNCHANGED run
    \/ \E o \in Objects, e \in RollbackEnv(vendor) : Rollback(o[1], o[2], e) /\ UNCHANGED run

SpecMain == Init /\ [][NextMain]_vars

\* ---------------------------------------------------------------- main
\* The number of entries of the target configuration file.
NTargets == 2
TargetIds == 1..NTargets

\* The command line. rollback is the pair of --rollback type:name, or <<>>.
NoRollback == <<>>
ArgChoices ==
    {a \in [config_ok : BOOLEAN,
            rollback : {NoRollback, <<"table", "a">>, <<"view", "a">>,
                        <<"procedure", "a">>, <<"index", "a">>},
            sync_all_tables : BOOLEAN, sync_all_views : BOOLEAN,
            sync_all_procedures : BOOLEAN, sync_indexes : BOOLEAN,
            alter_sync : BOOLEAN, create_on_target : BOOLEAN] :
        /\ a.sync_all_views = a.sync_all_procedures
        /\ a.rollback # NoRollback => (a.sync_all_tables /\ a.sync_all_views /\ a.sync_indexes)
        /\ ~a.config_ok => (a.rollback = NoRollback /\ a.sync_all_tables /\ a.sync_all_views
                             /\ a.sync_indexes /\ a.alter_sync /\ a.create_on_target)}

\* The databases the configured targets can be at when main starts: one never
\* synchronized, and one on which an earlier run created procedure a.
RunDbs ==
    { [schema |-> [o \in Objects |->
                      IF o = <<"view", "b">> THEN NULL
                      ELSE IF o = <<"view", "a">> THEN "d2" ELSE "d1"],
       log |-> <<>>],
      [schema |-> [o \in Objects |-> IF o = <<"procedure", "a">> THEN "d1" ELSE NULL],
       log |-> log_sync_action(<<>>, <<Rec("procedure", "a", "create", NULL, "d1", "drop")>>)] }

\* A main whose index pass hangs on --sync-indexes alone and follows the views.
StagesOf_indexes_ungated(a) ==
    IF a.rollback # NoRollback THEN <<"rollback", "close">>
    ELSE (IF a.sync_all_tables THEN <<"synchronize_all_tables">> ELSE <<>>)
         \o (IF a.sync_all_views THEN <<"synchronize_all_views">> ELSE <<>>)
         \o (IF a.sync_indexes THEN <<"synchronize_indexes">> ELSE <<>>)
         \o (IF a.sync_all_procedures THEN <<"synchronize_all_procedures">> ELSE <<>>)
         \o <<"close">>

\* The calls main makes on a connected target adapter, in order.
StagesOf(a) ==
    IF a.rollback # NoRollback THEN <<"rollback", "close">>
    ELSE (IF a.sync_all_tables
          THEN <<"synchronize_all_tables">> \o
               (IF a.sync_indexes THEN <<"synchronize_indexes">> ELSE <<>>)
          ELSE <<>>)
         \o (IF a.sync_all_views THEN <<"synchronize_all_views">> ELSE <<>>)
         \o (IF a.sync_all_procedures THEN <<"synchronize_all_procedures">> ELSE <<>>)
         \o <<"close">>

StageAfter(a, pc) ==
    LET k == CHOOSE j \in DOMAIN StagesOf(a) : StagesOf(a)[j] = pc
    IN  StagesOf(a)[k + 1]

BulkStages == {"synchronize_all_tables", "synchronize_all_views", "synchronize_all_procedures"}
BulkTypeOf(pc) ==
    CASE pc = "synchronize_all_tables" -> "table"
      [] pc = "synchronize_all_views" -> "view"
      [] pc = "synchronize_all_procedures" -> "procedure"

\* The process with method m recorded as called on target i.
Called(i, m) == [run EXCEPT !.calls[i] = Append(@, m)]

\* get_tables of the adapter: the tables of its catalog.
get_tables(tg) == list_objects(tg, "table")

\* The adapter classes that implement synchronize_indexes.
IndexVendors == {"mysql", "postgresql", "sqlserver", "oracle"}

\* The rows the catalog query of synchronize_indexes returns for a table, by
\* index name: the index of the primary key and one more. SQL Server's query
\* filters is_primary_key = 0; the other three list the primary key's index.
IndexesOf(v, table) == IF v = "sqlserver" THEN <<"ix">> ELSE <<"PRIMARY", "ix">>

\* The rows the loop builds a statement for: MySQL skips Key_name PRIMARY.
IndexRows(v, table) ==
    IF v = "mysql" THEN SelectSeq(IndexesOf(v, table), LAMBDA k : k # "PRIMARY")
    ELSE IndexesOf(v, table)

\* create_index_statement of an index row.
IndexStmt(k) == IF k = "PRIMARY" THEN "CREATE INDEX PRIMARY" ELSE "CREATE INDEX ix"

\* The loop over the rows: each statement is validated and, when valid,
\* executed; the vendor error of an execute ends the call.
RECURSIVE index_rows(_, _)
index_rows(rows, e) ==
    IF rows = <<>> THEN <<>>
    ELSE IF ~test_sql_statement(IndexStmt(Head(rows)), e)
    THEN <<Ev("validate", IndexStmt(Head(rows)), FALSE)>> \o index_rows(Tail(rows), e)
    ELSE IF ~e.execOK
    THEN <<Ev("validate", IndexStmt(Head(rows)), TRUE),
           Ev("execute", IndexStmt(Head(rows)), FALSE)>>
    ELSE <<Ev("validate", IndexStmt(Head(rows)), TRUE),
           Ev("execute", IndexStmt(Head(rows)), TRUE)>> \o index_rows(Tail(rows), e)

\* synchronize_indexes(table). The indexes are read from the table they are
\* created on, so a created index is one the table is listed with already.
synchronize_indexes(tg, table, e) ==
    LET cur == tg[<<"table", table>>]
    IN  IF cur = NULL
        THEN IF e.vendor = "mysql" THEN Res(cur, <<>>, <<>>, "Error")
             ELSE Res(cur, <<>>, <<>>, "Indexed")
        ELSE Res(cur, <<>>, index_rows(IndexRows(e.vendor, table), e), "Indexed")

\* for table in names: synchronize_indexes(table): the statements sent in all.
RECURSIVE index_pass(_, _, _)
index_pass(tg, names, e) ==
    IF names = <<>> THEN <<>>
    ELSE synchronize_indexes(tg, Head(names), e).trace \o index_pass(tg, Tail(names), e)

InitRun ==
    /\ run \in {[pc |-> "start", args |-> a, i |-> 1, dbs |-> d,
                 calls |-> [j \in TargetIds |-> <<>>], failed |-> 0, exit |-> "running",
                 round |-> 1, mark |-> <<>>] :
                    a \in ArgChoices, d \in [TargetIds -> RunDbs]}
    /\ target = run.dbs[1].schema
    /\ sync_log = run.dbs[1].log
    /\ source \in SourceChoices
    /\ vendor \in Vendors
    /\ bulk = Idle
    /\ queue = <<>>
    /\ last = NoReport("none", "none")

\* main up to the branch on --rollback: missing configuration ends the process
\* with a logged error and a plain return.
RunStart ==
    /\ run.pc = "start"
    /\ run' = IF ~run.args.config_ok THEN [run EXCEPT !.pc = "exit", !.exit = "0"]
              ELSE IF run.args.rollback # NoRollback THEN [run EXCEPT !.pc = "connect"]
              ELSE [run EXCEPT !.pc = "source"]
    /\ UNCHANGED <<target, source, vendor, sync_log, bulk, queue, last>>

\* source_sync.connect(): connect re-raises the vendor error and main catches nothing.
RunSourceConnect(ok) ==
    /\ run.pc = "source"
    /\ run' = IF ok THEN [run EXCEPT !.pc = "connect"]
              ELSE [run EXCEPT !.pc = "exit", !.exit = "traceback"]
    /\ UNCHANGED <<target, source, vendor, sync_log, bulk, queue, last>>

\* target_sync.connect() for target run.i.
RunConnect(ok) ==
    /\ run.pc = "connect"
    /\ run' = IF ok THEN [Called(run.i, "connect") EXCEPT !.pc = StagesOf(run.args)[1]]
              ELSE [Called(run.i, "connect") EXCEPT
                        !.pc = "exit", !.exit = "traceback", !.failed = run.i]
    /\ last' = NoReport("connect", "none")
    /\ UNCHANGED <<target, source, vendor, sync_log, bulk, queue>>

\* The rollback branch for one target: the dispatch on the object type.
RunRollback(e) ==
    /\ run.pc = "rollback"
    /\ IF run.args.rollback[1] \in Types
       THEN /\ Rollback(run.args.rollback[1], run.args.rollback[2], e)
            /\ run' = [Called(run.i, "rollback") EXCEPT !.pc = "close"]
       ELSE /\ last' = NoReport("unsupported", run.args.rollback[1])
            /\ run' = [run EXCEPT !.pc = "close"]
            /\ UNCHANGED <<target, source, vendor, sync_log, bulk, queue>>

\* target_sync.synchronize_all_tables / _views / _procedures(...) is entered.
RunBulkStart ==
    /\ run.pc \in BulkStages
    /\ BulkStart(BulkTypeOf(run.pc), run.args.alter_sync, run.args.create_on_target)
    /\ run' = Called(run.i, run.pc)

\* One iteration of that call's loop; an exception no handler catches ends the process.
RunBulkStep(e) ==
    /\ run.pc \in BulkStages
    /\ BulkStep(e)
    /\ run' = IF last'.outcome = "Crashed"
              THEN [run EXCEPT !.pc = "exit", !.exit = "traceback"]
              ELSE run

RunBulkEnd ==
    /\ run.pc \in BulkStages
    /\ BulkEnd
    /\ run' = [run EXCEPT !.pc = StageAfter(run.args, run.pc)]

\* for table in target_sync.get_tables(): target_sync.synchronize_indexes(table)
RunIndexes(e) ==
    /\ run.pc = "synchronize_indexes"
    /\ last' = [NoReport("indexes", "table") EXCEPT
                    !.trace = index_pass(target, get_tables(target), e),
                    !.outcome = "Indexed"]
    /\ run' = [run EXCEPT
                    !.calls[run.i] = @ \o [k \in 1..Len(get_tables(target)) |->
                                              "synchronize_indexes"],
                    !.pc = StageAfter(run.args, run.pc)]
    /\ UNCHANGED <<target, source, vendor, sync_log, bulk, queue>>

\* A main that goes on to the next target with the current one left open.
RunClose_left_open ==
    /\ run.pc = "close"
    /\ last' = NoReport("close", "none")
    /\ IF run.i < NTargets
       THEN /\ run' = [run EXCEPT
                           !.pc = "connect", !.i = run.i + 1,
                           !.dbs[run.i] = [schema |-> target, log |-> sync_log]]
            /\ target' = run.dbs[run.i + 1].schema
            /\ sync_log' = run.dbs[run.i + 1].log
       ELSE /\ run' = [Called(run.i, "close") EXCEPT !.pc = "exit", !.exit = "0"]
            /\ UNCHANGED <<target, sync_log>>
    /\ UNCHANGED <<source, vendor, bulk, queue>>

\* target_sync.close(), then the next target of the loop or the end of main.
RunClose ==
    /\ run.pc = "close"
    /\ last' = NoReport("close", "none")
    /\ IF run.i < NTargets
       THEN /\ run' = [Called(run.i, "close") EXCEPT
                           !.pc = "connect", !.i = run.i + 1,
                           !.dbs[run.i] = [schema |-> target, log |-> sync_log]]
            /\ target' = run.dbs[run.i + 1].schema
            /\ sync_log' = run.dbs[run.i + 1].log
       ELSE /\ run' = [Called(run.i, "close") EXCEPT !.pc = "exit", !.exit = "0"]
            /\ UNCHANGED <<target, sync_log>>
    /\ UNCHANGED <<source, vendor, bulk, queue>>

\* One process running main over the configured targets; target and sync_log
\* are the database of target run.i, run.dbs the databases of the others.
NextRun ==
    \/ RunStart
    \/ \E ok \in BOOLEAN : RunSourceConnect(ok)
    \/ \E ok \in BOOLEAN : RunConnect(ok)
    \/ \E e \in RollbackEnv(vendor) : RunRollback(e)
    \/ RunBulkStart
    \/ \E e \in Env(vendor) : RunBulkStep(e)
    \/ RunBulkEnd
    \/ \E e \in RollbackEnv(vendor) : RunIndexes(e)
    \/ RunClose

SpecRun == InitRun /\ [][NextRun]_vars

\* The database of target i as the process has left it.
DbOf(i) == IF i = run.i THEN [schema |-> target, log |-> sync_log] ELSE run.dbs[i]

\* The full sync run twice in succession: main is started again with the same
\* command line after it has returned, on the targets as the first run left them.
InitTwice ==
    /\ InitRun
    /\ run.args.config_ok /\ run.args.rollback = NoRollback
    /\ run.args.sync_all_tables /\ run.args.sync_all_views
    /\ run.args.sync_all_procedures /\ ~run.args.sync_indexes

RunAgain ==
    /\ run.pc = "exit" /\ run.exit = "0" /\ run.round = 1
    /\ run' = [run EXCEPT !.pc = "start", !.exit = "running", !.i = 1, !.round = 2,
                          !.dbs = [j \in TargetIds |-> DbOf(j)],
                          !.calls = [j \in TargetIds |-> <<>>],
                          !.mark = [j \in TargetIds |-> Len(DbOf(j).log)]]
    /\ target' = DbOf(1).schema
    /\ sync_log' = DbOf(1).log
    /\ last' = NoReport("none", "none")
    /\ UNCHANGED <<source, vendor, bulk, queue>>

NextTwice ==
    \/ RunStart
    \/ \E ok \in BOOLEAN : RunSourceConnect(ok)
    \/ \E ok \in BOOLEAN : RunConnect(ok)
    \/ RunBulkStart
    \/ \E e \in Env(vendor) : RunBulkStep(e)
    \/ RunBulkEnd
    \/ RunClose
    \/ RunAgain

SpecTwice == InitTwice /\ [][NextTwice]_vars

\* synchronize_indexes called for one table on an adapter of any of the
\* classes that implement it.
InitIndex ==
    /\ target \in [Objects -> OptDef]
    /\ target[<<"view", "b">>] = NULL
    /\ source = [o \in Objects |-> "d1"]
    /\ vendor \in IndexVendors
    /\ sync_log = <<>>
    /\ bulk = Idle
    /\ queue = <<>>
    /\ last = NoReport("none", "none")
    /\ run = NoRun

SynchronizeIndexes(table, e) ==
    /\ Apply("indexes", "table", table, FALSE, FALSE, synchronize_indexes(target, table, e))
    /\ UNCHANGED <<bulk, queue, run>>

NextIndex == \E table \in NamesOf("table"), e \in Env(vendor) : SynchronizeIndexes(table, e)

SpecIndex == InitIndex /\ [][NextIndex]_vars

\* The object after the first k statements of a call: a DROP that went through
\* leaves it absent, an execute that went through leaves it with the new text.
\* DDL is committed by the statement itself.
RECURSIVE committed(_, _, _)
committed(cur, trace, k) ==
    IF k = 0 THEN cur
    ELSE LET before == committed(cur, trace, k - 1)
         IN  IF ~trace[k].ok THEN before
             ELSE IF trace[k].ev = "drop" THEN NULL
             ELSE IF trace[k].ev = "execute" THEN Executed(before, trace[k].stmt)
             ELSE before

\* A per-object call cut short after its first k statements by an exception
\* that no handler of the method catches (KeyboardInterrupt, SystemExit): the
\* handlers name the vendor's error class only. The record is written only
\* when the INSERT of log_sync_action was among the k.
interrupted(cur, r, k) ==
    Res(committed(cur, r.trace, k),
        IF k = Len(r.trace) THEN r.recs ELSE <<>>,
        SubSeq(r.trace, 1, k),
        "Interrupted")

\* InitApi's adapter, with calls that may be interrupted.
InterruptedSynchronize(t, n, alter_sync, create_on_target, e, k) ==
    /\ bulk = Idle
    /\ Len(sync_log) < MaxLog
    /\ k \in 0..Len(synchronize(target, source, t, n, alter_sync, create_on_target, e).trace)
    /\ Apply("sync", t, n, alter_sync, create_on_target,
             interrupted(target[<<t, n>>],
                         synchronize(target, source, t, n, alter_sync, create_on_target, e), k))
    /\ UNCHANGED <<bulk, queue, run>>

\* The number of statements after which a call may be cut: a call sends at most
\* a DROP, a dry run, an execute and an INSERT.
MaxSent == 4

NextAbort ==
    \E o \in ApiObjects, a \in BOOLEAN, c \in BOOLEAN, e \in Env(vendor), k \in 0..MaxSent :
        InterruptedSynchronize(o[1], o[2], a, c, e, k)

SpecAbort == InitApi /\ [][NextAbort]_vars

\* Several adapters at work at the same time, one per target configuration,
\* each driven by a caller of its own and all connected to one database, so
\* that they share the objects and the sync_log table. Every statement an
\* adapter sends is one step; the steps of different adapters interleave
\* freely.
IdlePipe == [at |-> "idle", t |-> "none", n |-> "none", todo |-> <<>>, recs |-> <<>>]

\* All adapters on one connection.
ConnOf_shared(p) == 1

\* connect(): self.conn and self.cursor belong to the instance.
ConnOf(p) == p

\* The faults that leave a call with something executed.
ParEnv(v) == {e \in Env(v) : e.validOK /\ e.execOK /\ e.dropOK}

InitPar ==
    /\ target = [o \in Objects |-> IF o = <<"view", "a">> THEN "d2" ELSE NULL]
    /\ source = [o \in Objects |-> "d1"]
    /\ vendor \in Vendors
    /\ sync_log = <<>>
    /\ bulk = Idle
    /\ queue = <<>>
    /\ last = NoReport("none", "none")
    /\ run = [pc |-> "parallel", pipe |-> [p \in TargetIds |-> IdlePipe],
              conn |-> [k \in TargetIds |-> <<>>], rows |-> <<>>]

\* Adapter p enters a per-object method: it reads the catalog and decides
\* what to send.
PipeCall(p, t, n, create_on_target, e) ==
    /\ run.pipe[p].at = "idle"
    /\ run' = [run EXCEPT !.pipe[p] =
                  [at |-> "busy", t |-> t, n |-> n,
                   todo |-> synchronize(target, source, t, n, FALSE, create_on_target, e).trace,
                   recs |-> synchronize(target, source, t, n, FALSE, create_on_target, e).recs]]
    /\ UNCHANGED <<target, source, vendor, sync_log, bulk, queue, last>>

\* Adapter p sends its next statement: a DROP, a dry run or an execute on its
\* own connection, or the INSERT of log_sync_action.
PipeSend(p) ==
    LET me == run.pipe[p]
        ev == Head(me.todo)
    IN  /\ me.at = "busy"
        /\ me.todo # <<>>
        /\ target' = [target EXCEPT ![<<me.t, me.n>>] = committed(@, <<ev>>, 1)]
        /\ sync_log' = IF ev.ev = "log" /\ ev.ok THEN log_sync_action(sync_log, me.recs)
                       ELSE sync_log
        /\ run' = [run EXCEPT !.pipe[p].todo = Tail(@),
                              !.conn[ConnOf(p)] = Append(@, [by |-> p, ev |-> ev]),
                              !.rows = IF ev.ev = "log" /\ ev.ok
                                       THEN Append(@, [by |-> p, rec |-> me.recs[1]])
                                       ELSE @]
        /\ UNCHANGED <<source, vendor, bulk, queue, last>>

\* The method of adapter p returns.
PipeReturn(p) ==
    /\ run.pipe[p].at = "busy"
    /\ run.pipe[p].todo = <<>>
    /\ run' = [run EXCEPT !.pipe[p].at = "done"]
    /\ UNCHANGED <<target, source, vendor, sync_log, bulk, queue, last>>

NextPar ==
    \/ \E p \in TargetIds, o \in ApiObjects, c \in BOOLEAN, e \in ParEnv(vendor) :
           PipeCall(p, o[1], o[2], c, e)
    \/ \E p \in TargetIds : PipeSend(p)
    \/ \E p \in TargetIds : PipeReturn(p)

SpecPar == InitPar /\ [][NextPar]_vars

\* The adapter classes whose methods are bodies of `pass`.
StubVendors == {"mongodb", "neo4j"}

\* Any per-object method of MongoDBSync or Neo4jSync: the body is `pass`, so
\* nothing is sent, nothing is logged and the caller gets None.
stub_method(tg, t, n) == Res(tg[<<t, n>>], <<>>, <<>>, "Passed")

InitStub ==
    /\ target \in [Objects -> OptDef]
    /\ target[<<"view", "b">>] = NULL
    /\ source = [o \in Objects |-> "d1"]
    /\ vendor \in StubVendors
    /\ sync_log = <<>>
    /\ bulk = Idle
    /\ queue = <<>>
    /\ last = NoReport("none", "none")
    /\ run = NoRun

StubSynchronize(t, n, alter_sync, create_on_target) ==
    /\ Apply("sync", t, n, alter_sync, create_on_target, stub_method(target, t, n))
    /\ UNCHANGED <<bulk, queue, run>>

StubRollback(t, n) ==
    /\ Apply("rollback", t, n, FALSE, FALSE, stub_method(target, t, n))
    /\ UNCHANGED <<bulk, queue, run>>

StubSynchronizeIndexes(table) ==
    /\ Apply("indexes", "table", table, FALSE, FALSE, stub_method(target, "table", table))
    /\ UNCHANGED <<bulk, queue, run>>

\* synchronize_all_tables / _views / _procedures of a stub: `pass` as well.
StubSynchronizeAll(t, alter_sync, create_on_target) ==
    /\ last' = [NoReport("sync_all", t) EXCEPT !.alter_sync = alter_sync,
                    !.create_on_target = create_on_target, !.outcome = "Passed"]
    /\ UNCHANGED <<target, source, vendor, sync_log, bulk, queue, run>>

NextStub ==
    \/ \E o \in Objects, a \in BOOLEAN, c \in BOOLEAN : StubSynchronize(o[1], o[2], a, c)
    \/ \E o \in Objects : StubRollback(o[1], o[2])
    \/ \E table \in NamesOf("table") : StubSynchronizeIndexes(table)
    \/ \E t \in Types, a \in BOOLEAN, c \in BOOLEAN : StubSynchronizeAll(t, a, c)

SpecStub == InitStub /\ [][NextStub]_vars

TypeOK ==
    /\ target \in [Objects -> OptDef]
    /\ Len(sync_log) <= MaxLog
    /\ \A i \in DOMAIN sync_log : sync_log[i].timestamp = i

\* ---------------------------------------------------------------- properties
Tr == last.trace
Obj == <<last.type, last.name>>
IsSync == last.op = "sync"
IsRollback == last.op = "rollback"
Sent(kind) == {i \in DOMAIN Tr : Tr[i].ev = kind}
AllOk == \A i \in DOMAIN Tr : Tr[i].ok
\* The rows of the pair (t, n), and the one inserted last.
RowsOf(t, n) ==
    {i \in DOMAIN sync_log : sync_log[i].object_type = t /\ sync_log[i].object_name = n}
NewestOf(t, n) == sync_log[CHOOSE i \in RowsOf(t, n) : \A j \in RowsOf(t, n) : j <= i]

\* C1: when the dry run of a statement fails during a per-object sync, that
\* statement is never executed for real, no audit record is written, and the
\* running bulk call goes on with its loop.
C1_FailedValidationGate ==
    IsSync =>
        \A i \in DOMAIN Tr :
            (Tr[i].ev = "validate" /\ ~Tr[i].ok) =>
                /\ \A j \in DOMAIN Tr : ~(Tr[j].ev = "execute" /\ Tr[j].stmt = Tr[i].stmt)
                /\ Sent("log") = {}
                /\ Len(sync_log) = last.loglen
                /\ bulk # Idle /\ bulk.type = last.type

C1_Witness ==
    /\ IsSync /\ last.outcome = "ValidationFailed"
    /\ bulk # Idle /\ queue # <<>>

C3_AbsentNoCreateIsNoop ==
    (IsSync /\ last.pre = NULL /\ ~last.create_on_target /\ source[Obj] # NULL) =>
        /\ Tr = <<>>
        /\ target[Obj] = NULL
        /\ Len(sync_log) = last.loglen

\* C4: a per-object sync of an object whose target text equals the source text
\* classifies it as identical, executes no drop and no create, and writes no
\* audit record, whatever the flags.
C4_IdenticalIsNoop ==
    (IsSync /\ last.pre # NULL /\ last.pre = source[Obj]) =>
        /\ last.outcome = "Identical"
        /\ Sent("execute") = {} /\ Sent("drop") = {}
        /\ Len(sync_log) = last.loglen

\* C5: a per-object sync of an absent object with create_on_target = TRUE, in
\* which no statement fails, appends exactly one record (create, original_state
\* null, new_state the source text) and leaves the object existing on the target.
C5_CreateScenario ==
    (IsSync /\ last.pre = NULL /\ last.create_on_target /\ source[Obj] # NULL /\ AllOk) =>
        /\ Len(sync_log) = last.loglen + 1
        /\ sync_log[Len(sync_log)].object_type = last.type
        /\ sync_log[Len(sync_log)].object_name = last.name
        /\ sync_log[Len(sync_log)].action = "create"
        /\ sync_log[Len(sync_log)].original_state = NULL
        /\ sync_log[Len(sync_log)].new_state = source[Obj]
        /\ target[Obj] # NULL

\* C6, for a table: a per-object sync of a table whose target text differs from
\* the source text, with alter_sync = FALSE and no failing statement, drops the
\* table, recreates it from the source text and appends exactly one record
\* (sync, original_state the text before the drop, new_state the source text).
C6_DivergentReplace ==
    (IsSync /\ last.type = "table" /\ last.pre # NULL /\ source[Obj] # NULL
        /\ last.pre # source[Obj] /\ ~last.alter_sync /\ AllOk) =>
        /\ Tr # <<>> /\ Tr[1].ev = "drop"
        /\ \E i \in Sent("execute") : Tr[i].stmt = source[Obj]
        /\ target[Obj] = source[Obj]
        /\ Len(sync_log) = last.loglen + 1
        /\ sync_log[Len(sync_log)].action = "sync"
        /\ sync_log[Len(sync_log)].original_state = last.pre
        /\ sync_log[Len(sync_log)].new_state = source[Obj]

\* C7: a rollback called while the object still has the text a replacing sync
\* gave it (the newest record of the pair has action sync, a stored
\* original_state and a new_state) leaves the target text equal to that
\* original_state.
C7_RoundTrip ==
    (/\ IsRollback /\ RowsOf(last.type, last.name) # {}
     /\ NewestOf(last.type, last.name).action = "sync"
     /\ NewestOf(last.type, last.name).original_state # NULL
     /\ NewestOf(last.type, last.name).new_state # NULL
     /\ last.pre = NewestOf(last.type, last.name).new_state) =>
        target[Obj] = NewestOf(last.type, last.name).original_state

\* C8: a rollback of an object whose newest record has action create sends the
\* drop of that object, and no rollback changes the audit log in any way.
C8_RollbackCreateDrops ==
    [][last'.op = "rollback" =>
          /\ sync_log' = sync_log
          /\ (/\ RowsOf(last'.type, last'.name) # {}
              /\ NewestOf(last'.type, last'.name).action = "create") =>
                 (Len(last'.trace) = 1 /\ last'.trace[1].ev = "drop")]_vars

C8_Witness ==
    /\ IsRollback /\ last.outcome = "Dropped"
    /\ last.pre # NULL /\ target[Obj] = NULL
    /\ NewestOf(last.type, last.name).action = "create"

\* C9: a rollback of an object whose newest record has action sync starts with
\* the dry run of the stored original_state and, when that succeeds, executes it.
C9_RollbackSyncRecreates ==
    (/\ IsRollback /\ RowsOf(last.type, last.name) # {}
     /\ NewestOf(last.type, last.name).action = "sync") =>
        /\ Tr # <<>>
        /\ Tr[1].ev = "validate"
        /\ Tr[1].stmt = NewestOf(last.type, last.name).original_state
        /\ Tr[1].ok => (Len(Tr) = 2 /\ Tr[2].ev = "execute" /\ Tr[2].stmt = Tr[1].stmt)

\* C10: the statements a rollback sends are decided by the newest record of its
\* (object_type, object_name) pair alone: none when the pair has no record, the
\* drop exactly when that record's action is create, and otherwise nothing but
\* the dry run and execute of that record's original_state.
C10_RollbackUsesNewest ==
    IsRollback =>
        IF RowsOf(last.type, last.name) = {} THEN Tr = <<>>
        ELSE LET r == NewestOf(last.type, last.name)
             IN  /\ (r.action = "create") <=> (Sent("drop") # {})
                 /\ \A i \in DOMAIN Tr :
                        Tr[i].ev \in {"validate", "execute"} =>
                            (r.action # "create" /\ Tr[i].stmt = r.original_state)

C10_Witness ==
    /\ IsRollback
    /\ \E i, j \in RowsOf(last.type, last.name) :
           i < j /\ sync_log[i].action = "create" /\ sync_log[j].action = "sync"
    /\ NewestOf(last.type, last.name).action = "sync"
    /\ Sent("drop") = {}

\* C11: a rollback of a pair that has no audit record sends no statement to
\* the target, leaves the target schema and the audit log as they were and is
\* not fatal: main goes on to close this target, and after the close of a
\* target of a rollback run it connects the next target, or ends normally
\* after the last one.
C11_NoHistoryRollback ==
    [][/\ (last'.op = "rollback" /\ RowsOf(last'.type, last'.name) = {}) =>
              /\ last'.trace = <<>>
              /\ last'.outcome = "NoAction"
              /\ target' = target /\ sync_log' = sync_log
              /\ run'.pc = "close" /\ run'.exit = "running"
       /\ (run.pc = "close" /\ run.args.rollback # NoRollback) =>
              IF run.i < NTargets
              THEN run'.pc = "connect" /\ run'.i = run.i + 1 /\ run'.exit = "running"
              ELSE run'.pc = "exit" /\ run'.exit = "0"]_vars

C11_Witness ==
    /\ run.pc = "close" /\ run.i = 2
    /\ IsRollback /\ last.outcome = "NoAction" /\ RowsOf(last.type, last.name) = {}
    /\ run.calls[1] = <<"connect", "rollback", "close">>
    /\ \A k \in DOMAIN run.dbs[1].log :
           <<run.dbs[1].log[k].object_type, run.dbs[1].log[k].object_name>> # Obj

\* C12: when the full sync (sync_all_tables, sync_all_views, sync_all_procedures,
\* any values of create_on_target and alter_sync) is run a second time right
\* after a first run that completed, with every source definition available,
\* no target's audit log grows during the second run.
C12_SecondRunAppendsNothing ==
    (run.round = 2 /\ \A o \in Objects : source[o] # NULL) =>
        \A i \in TargetIds : Len(DbOf(i).log) = run.mark[i]

\* C13: a per-object sync or a rollback that ends with a failed validation (of
\* a statement that is not null) leaves the definition of its object on the target (its absence included) as
\* it was before the call.
C13_FailedValidationNoMutation ==
    ((IsSync \/ IsRollback) /\ last.outcome = "ValidationFailed"
        /\ \A i \in Sent("validate") : Tr[i].stmt # NULL) =>
        target[Obj] = last.pre

\* C15: a per-object sync of an object whose target text differs from the
\* source text, called with alter_sync = TRUE, sends no statement, leaves the
\* target text as it was and writes no audit record, for every object type.
C15_DivergentAlterIsNoop ==
    (IsSync /\ last.pre # NULL /\ source[Obj] # NULL /\ last.pre # source[Obj]
        /\ last.alter_sync) =>
        /\ Tr = <<>>
        /\ target[Obj] = last.pre
        /\ Len(sync_log) = last.loglen

\* The drift class of the object of the last call, from the target before the
\* call and the source, and the branch the call took, from what it did.
DriftClass ==
    IF last.pre = NULL THEN "Absent"
    ELSE IF last.pre = source[Obj] THEN "Identical" ELSE "Divergent"
BranchTaken ==
    CASE last.outcome = "Skipped" -> "Absent"
      [] last.outcome = "Identical" -> "Identical"
      [] last.outcome = "AlterNoop" -> "Divergent"
      [] Tr # <<>> /\ Tr[1].ev = "drop" -> "Divergent"
      [] Tr # <<>> /\ Tr[1].ev = "validate" -> "Absent"
      [] OTHER -> "none"

\* C16: for every object type the branch a per-object sync takes is the one of
\* the object's drift class: Absent iff the object does not exist on the
\* target, Identical iff it exists with the source's text, Divergent iff it
\* exists with another text (calls that the definition query ends with an
\* exception classify nothing and are left out).
C16_ClassificationExact ==
    (IsSync /\ source[Obj] # NULL /\ last.outcome \notin {"Error", "Crashed"}) =>
        BranchTaken = DriftClass

\* C17: a per-object sync whose statement was executed and whose audit write
\* failed leaves the target mutated and the log without a record for it, logs
\* the failure, and hands its caller a result other than that of a logged success.
C17_AppliedUnloggedVisible ==
    (IsSync /\ last.outcome = "AppliedUnlogged" /\ source[Obj] # NULL) =>
        /\ \E i \in Sent("execute") : Tr[i].ok /\ target[Obj] = Executed(last.pre, Tr[i].stmt)
        /\ Len(sync_log) = last.loglen
        /\ \E i \in Sent("log") : LevelOf(Tr[i]) \in {"WARNING", "ERROR"}
        /\ Returned(last.outcome) # Returned("Applied")

\* C14: every step of every sequence of per-object syncs and rollbacks leaves
\* the audit log as it was or extends it at its end: the records it held are
\* still there, unmodified and in the same positions.
C14_AppendOnly ==
    [][/\ Len(sync_log') >= Len(sync_log)
       /\ SubSeq(sync_log', 1, Len(sync_log)) = sync_log]_vars

C14_Witness ==
    /\ IsSync /\ Len(sync_log) = 2 /\ last.loglen = 1
    /\ sync_log[1].object_type = sync_log[2].object_type
    /\ sync_log[1].object_name = sync_log[2].object_name

\* C18: while a bulk call has a later name left in its snapshot, whatever the
\* per-object call of the current name ends with, the bulk call stays in its
\* loop and goes on with the rest of the snapshot.
C18_PerObjectFailureIsolated ==
    [][(bulk # Idle /\ Len(queue) > 1) => (bulk' = bulk /\ queue' = Tail(queue))]_vars

\* C19: when main has ended and the connect of a target had failed, every
\* target later in the configured sequence has been connected and processed.
C19_ConnectFailureIsolated ==
    (run.pc = "exit" /\ run.failed # 0) =>
        \A j \in TargetIds : j > run.failed =>
            (run.calls[j] # <<>> /\ run.calls[j][1] = "connect")

\* C20: a rollback called right after a rollback of the same object in which
\* no statement failed reads the same newest record, raises nothing (also
\* when it drops an object that is already absent), and leaves the target
\* schema and the audit log as the first call left them.
C20_RollbackIdempotent ==
    [][(/\ last.op = "rollback" /\ AllOk
        /\ last'.op = "rollback" /\ last'.type = last.type /\ last'.name = last.name) =>
          /\ latest_row(sync_log', last.type, last.name)
                = latest_row(sync_log, last.type, last.name)
          /\ last'.outcome # "Crashed"
          /\ target' = target
          /\ sync_log' = sync_log]_vars

C20_Witness ==
    /\ IsRollback /\ last.outcome = "Dropped" /\ last.pre = NULL
    /\ RowsOf(last.type, last.name) # {}
    /\ NewestOf(last.type, last.name).action = "create"
    /\ NewestOf(last.type, last.name).new_state # NULL

\* C21: when main has ended a run started with --rollback type:name (type one
\* of table, view, procedure), every configured target has seen exactly the
\* calls connect, the rollback of that object, close: no bulk sync, no index
\* pass, and the rollback once.
C21_RollbackOnlyOncePerTarget ==
    (/\ run.pc = "exit" /\ run.args.config_ok
     /\ run.args.rollback # NoRollback /\ run.args.rollback[1] \in Types) =>
        \A j \in TargetIds : run.calls[j] = <<"connect", "rollback", "close">>

\* The definition a per-object sync reads as the source's is null: the source
\* text of a view or procedure, or the target-side read of an absent table
\* where that read yields NULL.
DefinitionNull ==
    IF last.type = "table" THEN last.pre = NULL /\ vendor = "sqlserver"
    ELSE source[Obj] = NULL

\* C22: a per-object sync whose source definition is null skips the object:
\* it raises nothing, sends no validating, dropping or creating statement,
\* leaves the target as it was and writes no audit record.
C22_NullDefinitionFailsFast ==
    (IsSync /\ DefinitionNull) =>
        /\ last.outcome # "Crashed"
        /\ Tr = <<>>
        /\ target[Obj] = last.pre
        /\ Len(sync_log) = last.loglen

\* C23: a bulk call starts from the names the target's catalog lists for its
\* object type, and each step of its loop runs the per-object sync of that
\* type for the first name still to process and goes on with the names after it.
C23_BulkNamesFromTargetCatalog ==
    [][/\ (bulk = Idle /\ bulk' # Idle) =>
              queue' = SelectSeq(NameOrder,
                           LAMBDA n : n \in NamesOf(bulk'.type) /\ target[<<bulk'.type, n>>] # NULL)
       /\ (bulk # Idle /\ queue # <<>>) =>
              /\ last'.op = "sync" /\ last'.type = bulk.type /\ last'.name = Head(queue)
              /\ queue' = Tail(queue)]_vars

\* The calls of synchronize_indexes made on target j so far.
IndexCalls(j) == SelectSeq(run.calls[j], LAMBDA m : m = "synchronize_indexes")

C25_IndexSyncAdditive ==
    last.op = "indexes" =>
        /\ \A i \in DOMAIN Tr :
               /\ Tr[i].ev \in {"validate", "execute"}
               /\ Tr[i].stmt \in {IndexStmt("PRIMARY"), IndexStmt("ix")}
               /\ Tr[i].stmt # IndexStmt("PRIMARY")
        /\ \A i \in Sent("execute") : i > 1 /\ Tr[i - 1] = Ev("validate", Tr[i].stmt, TRUE)
        /\ target[Obj] = last.pre
        /\ Len(sync_log) = last.loglen

\* C29: when main has ended, the exit status is non-zero exactly when a
\* required configuration input was missing.
C29_ExitStatusOnlyForConfig ==
    run.pc = "exit" => ((run.exit # "0") <=> ~run.args.config_ok)

\* What a caller can tell a refusal by: an exception instead of None, or an
\* outcome that says so.
Unsupported(rep) == Returned(rep.outcome) # "None" \/ rep.outcome = "Unsupported"

\* C30: every synchronisation, rollback or index call on a MongoDB or Neo4j
\* adapter reports that the operation is unsupported, changes nothing on the
\* target and writes no audit record.
C30_StubReportsUnsupported ==
    [][(vendor \in StubVendors) =>
          (Unsupported(last') /\ (target' = target) /\ (sync_log' = sync_log))]_vars

\* C26: when a call ends by an abort, every statement it had executed for real
\* is followed by its audit record (or by the failed attempt to write it), and
\* what the call had committed stays committed.
C26_AbortLeavesAppliedLogged ==
    last.outcome = "Interrupted" =>
        /\ \A i \in Sent("execute") \cup Sent("drop") :
               (Tr[i].ok /\ Tr[i].stmt # NULL) => \E j \in Sent("log") : j > i
        /\ (\E j \in Sent("log") : Tr[j].ok) => Len(sync_log) = last.loglen + 1
        /\ target[Obj] = committed(last.pre, Tr, Len(Tr))

\* The statements that went over connection k, in order.
OnConn(k) == run.conn[k]
\* The statements adapter p sent, in order.
SentBy(p) == SelectSeq(run.conn[ConnOf(p)], LAMBDA w : w.by = p)
\* The rows adapter p inserted.
RowsBy(p) == SelectSeq(run.rows, LAMBDA w : w.by = p)

\* C27: with adapters inserting into one sync_log in any interleaving, the
\* table holds exactly the rows inserted, in the order of insertion and each as
\* its adapter wrote it; an adapter whose call has returned after a real
\* execute and without a failed log write has exactly one row there.
C27_ConcurrentAppendsKeepEveryRecord ==
    run.pc = "parallel" =>
        /\ Len(sync_log) = Len(run.rows)
        /\ \A i \in DOMAIN sync_log :
               sync_log = log_sync_action(SubSeq(sync_log, 1, i - 1), <<run.rows[i].rec>>)
                          \o SubSeq(sync_log, i + 1, Len(sync_log))
        /\ \A p \in TargetIds :
               (/\ run.pipe[p].at = "done"
                /\ \E i \in DOMAIN SentBy(p) :
                       SentBy(p)[i].ev.ev = "execute" /\ SentBy(p)[i].ev.ok
                /\ \A i \in DOMAIN SentBy(p) : SentBy(p)[i].ev.ok) =>
                   Len(RowsBy(p)) = 1

C27_Witness ==
    /\ run.pc = "parallel"
    /\ Len(sync_log) = 2
    /\ run.rows[1].by = 2 /\ run.rows[2].by = 1
    /\ Len(SentBy(1)) = 4
    /\ \A p \in {1, 2} : run.pipe[p].at = "done"

\* C28: on every connection, each real execute comes right after the
\* successful dry run of the same statement, sent by the same adapter: no
\* other statement is sent on the connection in between, and no second pair is
\* open on it; this in every interleaving of the adapters.
C28_ValidateExecuteCritical ==
    run.pc = "parallel" =>
        \A k \in TargetIds : \A i \in DOMAIN OnConn(k) :
            OnConn(k)[i].ev.ev = "execute" =>
                /\ i > 1
                /\ OnConn(k)[i - 1].ev = Ev("validate", OnConn(k)[i].ev.stmt, TRUE)
                /\ OnConn(k)[i - 1].by = OnConn(k)[i].by

C28_Witness ==
    /\ run.pc = "parallel"
    /\ \E i \in DOMAIN OnConn(1) : OnConn(1)[i].ev.ev = "execute"
    /\ \E i \in DOMAIN OnConn(2) : OnConn(2)[i].ev.ev = "validate"
    /\ run.pipe[1].at = "busy" /\ run.pipe[2].at = "busy"
    /\ run.pipe[2].todo # <<>> /\ Head(run.pipe[2].todo).ev = "execute"

\* C31: every audit record with action create or sync has a new_state that is
\* not null, whatever definition was read for its object.
C31_NewStateNeverNull ==
    \A i \in DOMAIN sync_log :
        sync_log[i].action \in {"create", "sync"} => sync_log[i].new_state # NULL

\* C32: the audit log grows only in a per-object sync, by the one record whose
\* INSERT directly follows the successful real execute of a statement on the
\* target, that statement being the record's new_state.
C32_RecordRightAfterExecute ==
    /\ IsRollback => Len(sync_log) = last.loglen
    /\ IsSync =>
           /\ Len(sync_log) > last.loglen =>
                  /\ Len(sync_log) = last.loglen + 1
                  /\ \E i \in Sent("log") : Tr[i].ok
           /\ \A i \in Sent("log") :
                  /\ i > 1
                  /\ Tr[i - 1] = Ev("execute", Tr[i].stmt, TRUE)
                  /\ Tr[i].ok => sync_log[Len(sync_log)].new_state = Tr[i].stmt

C32_Witness ==
    /\ IsSync /\ Len(sync_log) = last.loglen + 1
    /\ Len(Tr) = 4 /\ Tr[1].ev = "drop" /\ Tr[3] = Ev("execute", "d1", TRUE)
    /\ Tr[4] = Ev("log", "d1", TRUE)
    /\ sync_log[Len(sync_log)].new_state = "d1"

\* C33: the rollback_action stored in a record is the inverse of its action:
\* drop for create, recreate for sync.
C33_RollbackActionIsInverse ==
    \A i \in DOMAIN sync_log :
        /\ sync_log[i].action = "create" => sync_log[i].rollback_action = "drop"
        /\ sync_log[i].action = "sync" => sync_log[i].rollback_action = "recreate"

\* C34: when, in a bulk call, the real execute of a statement that passed its
\* dry run fails with a vendor error, the failure is logged as an error for
\* that object, the audit log stays as it was, and the loop goes on with the
\* names left in its snapshot.
C34_ExecutionErrorIsolated ==
    [][(/\ bulk # Idle /\ queue # <<>>
        /\ last'.op = "sync" /\ last'.name = Head(queue)
        /\ \E i \in DOMAIN last'.trace :
               /\ last'.trace[i] = Ev("execute", last'.trace[i].stmt, FALSE)
               /\ i > 1 /\ last'.trace[i - 1].ev = "validate" /\ last'.trace[i - 1].ok) =>
           (/\ \E i \in DOMAIN last'.trace : LevelOf(last'.trace[i]) = "ERROR"
            /\ Returned(last'.outcome) = "None"
            /\ sync_log' = sync_log
            /\ bulk' = bulk
            /\ queue' = Tail(queue))]_vars

C34_Witness ==
    /\ IsSync /\ last.outcome = "ExecutionError"
    /\ \E i \in Sent("execute") : ~Tr[i].ok /\ i > 1 /\ Tr[i - 1].ev = "validate"
    /\ bulk # Idle /\ queue = <<"b">> /\ last.name = "a"
    /\ Len(sync_log) = last.loglen

\* C35: main works through the targets in the order of the configuration, one
\* at a time, with or without --rollback: every target before the current one
\* was connected first and closed last, no target after it has been touched,
\* and the only bulk loop in progress is the current call on the current target.
C35_TargetsInOrderOneAtATime ==
    run.pc # "none" =>
        /\ \A j \in TargetIds :
               /\ j < run.i =>
                      /\ Len(run.calls[j]) >= 2
                      /\ run.calls[j][1] = "connect"
                      /\ run.calls[j][Len(run.calls[j])] = "close"
               /\ j > run.i => run.calls[j] = <<>>
               /\ \A k \in DOMAIN run.calls[j] :
                      /\ run.calls[j][k] = "connect" => k = 1
                      /\ run.calls[j][k] = "close" => k = Len(run.calls[j])
        /\ bulk # Idle =>
               /\ run.pc \in BulkStages
               /\ bulk.type = BulkTypeOf(run.pc)
               /\ run.calls[run.i][Len(run.calls[run.i])] = run.pc

C35_Witness ==
    /\ run.pc # "none" /\ run.i = 2
    /\ run.calls[1][Len(run.calls[1])] = "close"
    /\ Len(run.calls[1]) > 3
    /\ bulk # Idle /\ IsSync /\ last.name = "a"

C37_ProcedureCreateOnTargetOnlyCreates ==
    (IsSync /\ last.type = "procedure" /\ last.create_on_target) =>
        /\ Sent("drop") = {}
        /\ last.outcome # "Crashed" => (Tr # <<>> /\ Tr[1].ev = "validate")
        /\ \A i \in DOMAIN Tr : Tr[i].stmt = source[Obj]
        /\ Len(sync_log) > last.loglen =>
               /\ Len(sync_log) = last.loglen + 1
               /\ sync_log[Len(sync_log)].object_type = "procedure"
               /\ sync_log[Len(sync_log)].object_name = last.name
               /\ sync_log[Len(sync_log)].action = "create"
               /\ sync_log[Len(sync_log)].original_state = NULL

C37_Witness ==
    /\ IsSync /\ last.type = "procedure" /\ last.create_on_target
    /\ last.pre = "d2" /\ source[Obj] = "d1"
    /\ last.outcome = "Applied" /\ target[Obj] = "d1"
    /\ sync_log[Len(sync_log)].action = "create"

\* C38: every table name a bulk table sync hands to synchronize_table is of a
\* table the target has, so the call for it never takes the create branch:
\* whatever create_on_target is, it sends nothing and writes nothing, and no
\* record of a table is ever written by a run of bulk calls.
C38_BulkTableSyncNeverCreates ==
    /\ (IsSync /\ last.type = "table") =>
           /\ last.pre # NULL
           /\ Tr = <<>>
           /\ target[Obj] = last.pre
           /\ Len(sync_log) = last.loglen
    /\ \A i \in DOMAIN sync_log : sync_log[i].object_type # "table"

C38_Witness ==
    /\ IsSync /\ last.type = "table" /\ last.create_on_target
    /\ bulk # Idle /\ bulk.type = "table" /\ queue = <<>>
    /\ last.pre = "d2" /\ source[Obj] = "d1" /\ target[Obj] = "d2"

\* C39: every audit record has action create or sync; so rollback_table, which
\* recreates on action alter only, never recreates anything.
C39_ActionsCreateOrSync ==
    /\ \A i \in DOMAIN sync_log : sync_log[i].action \in {"create", "sync"}
    /\ (IsRollback /\ last.type = "table") =>
           /\ Sent("validate") = {} /\ Sent("execute") = {}
           /\ last.outcome # "Recreated"

C39_Witness ==
    /\ IsRollback /\ last.type = "table" /\ last.outcome = "NoAction"
    /\ Len(sync_log) = 2
    /\ {sync_log[1].action, sync_log[2].action} = {"create", "sync"}

\* C40: a bulk call's list of names is fixed when its loop starts: a step of
\* the loop removes the first name and nothing else, whatever it creates or
\* drops on the target, and the call ends only when the per-object method has
\* been invoked for the last name of the list.
C40_BulkRunsWholeSnapshot ==
    [][/\ (bulk # Idle /\ bulk' # Idle) => queue' \in {queue, Tail(queue)}
       /\ (bulk # Idle /\ bulk' = Idle) =>
              \/ queue = <<>>
              \/ /\ Len(queue) = 1
                 /\ last'.op = "sync" /\ last'.name = Head(queue)]_vars

====
